---- MODULE Spec2Model ----
(***************************************************************************)
(* Model of the two SharePoint automation scripts.                         *)
(*                                                                         *)
(*   pipeline A  point_history_updater.py   (SharePointVRSUpdater)         *)
(*   pipeline B  sharepoint_date_updater.py (SharePointPointUpdater)       *)
(*                                                                         *)
(* Text is modelled as a sequence of tokens.  A file name is a sequence of *)
(* one-character strings.  A file's content is a sequence of records with  *)
(* a kind field k: a newline, a space, a tab, the literal CMS, a piece of  *)
(* other text, or a maximal substring matching \d{2}/\d{2}/\d{4} (kind     *)
(* "date", with its month, day and year).  Every HTTP request is one step  *)
(* whose outcome (accepted or failed) the remote service chooses.          *)
(***************************************************************************)
EXTENDS Integers, Sequences, FiniteSets, TLC

VARIABLES
    \* ---- pipeline B: SharePointPointUpdater --------------------------
    pcB,            \* position in process_multiple_points / update_text_file
    nPoints,        \* len(points) after the max_points slice
    idx,            \* number of points whose loop iteration has completed
    point,          \* the current element of points: id, number, date_added
    folderB,        \* the remote folder of the current point: sequence of files
    file_name,      \* update_text_file's file_name (as located, then as rewritten)
    backup,         \* the local backup file of this call: written flag and content
    content,        \* the text fetched at line 176
    updated,        \* updated_content and updates_made
    rename_needed,  \* line 181
    issued,         \* the mutating requests this call has sent, in order
    retB,           \* what process_single_point returns: "none" until it returns
    resultsB,       \* the in-memory results dictionary
    persisted,      \* the content of processing_results.json
    hist,           \* bookkeeping of the current call, for stating the properties
    \* ---- pipeline A: SharePointVRSUpdater ----------------------------
    pcA,            \* position in process_vrs_csv / update_point_history
    nRows,          \* the number of data rows the CSV file holds
    rowsRead,       \* the number of rows the reader has yielded
    row,            \* the row of the current iteration
    cleaned_row,    \* the local cleaned_row: unbound until first assigned
    resultsA,       \* the results dictionary
    foldersA,       \* the remote folder of every point
    obs,            \* the VRSObservation of the current call
    existing,       \* existing_content: None or the fetched text
    retA,           \* what update_point_history returns: "none" until it returns
    histA           \* bookkeeping of the run, for stating the properties

varsB == <<pcB, nPoints, idx, point, folderB, file_name, backup, content,
           updated, rename_needed, issued, retB, resultsB, persisted, hist>>

varsA == <<pcA, nRows, rowsRead, row, cleaned_row, resultsA, foldersA, obs,
           existing, retA, histA>>

vars == <<varsB, varsA>>

-----------------------------------------------------------------------------
(* Bounds of the model. *)

MaxPoints == 2

MaxLines == 2

MaxRows == 3

\* the longest existing text handed to the content composer on its own
MaxText == 3

-----------------------------------------------------------------------------
(* Text primitives. *)

Tok(kind) == [k |-> kind, m |-> 0, d |-> 0, y |-> 0]

DateTok(mm, dd, yyyy) == [k |-> "date", m |-> mm, d |-> dd, y |-> yyyy]

NL == Tok("nl")

SP == Tok("sp")

TAB == Tok("tab")

CMS == Tok("CMS")

TXT == Tok("x")

\* str.isspace for one token
IsSpace(t) == t.k \in {"sp", "tab", "nl"}

RECURSIVE Flatten(_, _)
\* sep.join(parts)
Flatten(parts, sep) ==
    IF parts = <<>> THEN <<>>
    ELSE IF Len(parts) = 1 THEN parts[1]
    ELSE parts[1] \o sep \o Flatten(Tail(parts), sep)

\* StrJoin with every line terminated, as writelines of "line\n" would
StrJoin_TrailingNewline(lines) == Flatten(lines, <<NL>>) \o <<NL>>

\* '\n'.join(lines)
StrJoin(lines) == Flatten(lines, <<NL>>)

RECURSIVE SplitFrom(_, _, _)
\* the lines of text[i..], cur being the part of the current line already read
SplitFrom(text, i, cur) ==
    IF i > Len(text) THEN <<cur>>
    ELSE IF text[i] = NL THEN <<cur>> \o SplitFrom(text, i + 1, <<>>)
    ELSE SplitFrom(text, i + 1, Append(cur, text[i]))

\* content.split('\n'): never empty, '' splits into ['']
StrSplit(text) == SplitFrom(text, 1, <<>>)

\* one character of str.lower(), over the letters the model's names use
LowerChar(c) ==
    CASE c = "P" -> "p"
      [] c = "T" -> "t"
      [] c = "X" -> "x"
      [] OTHER -> c

\* str.lower()
Lower(s) == [i \in 1..Len(s) |-> LowerChar(s[i])]

\* str.endswith
EndsWith(s, suffix) ==
    /\ Len(s) >= Len(suffix)
    /\ SubSeq(s, Len(s) - Len(suffix) + 1, Len(s)) = suffix

DotTxt == <<".", "t", "x", "t">>

\* file_name.lower().endswith('.txt')
IsTxtName(name) == EndsWith(Lower(name), DotTxt)

\* f"Point {point_number}.txt"
DesiredName(point_number) == <<"P", "o", "i", "n", "t", " ">> \o point_number \o DotTxt

-----------------------------------------------------------------------------
(* The remote folder: a sequence of files in listing order. *)

File(name, text) == [name |-> name, content |-> text]

NoName == <<>>

Names(folder) == [i \in 1..Len(folder) |-> folder[i].name]

HasFile(folder, name) == \E i \in 1..Len(folder) : folder[i].name = name

\* the file a path names; the service resolves the path to one file
FileIndex(folder, name) == CHOOSE i \in 1..Len(folder) : folder[i].name = name

FileContent(folder, name) == folder[FileIndex(folder, name)].content

RECURSIVE FirstTxt(_)
\* the first listed name that ends in .txt ignoring case, NoName when there is none
FirstTxt(names) ==
    IF names = <<>> THEN NoName
    ELSE IF IsTxtName(Head(names)) THEN Head(names)
    ELSE FirstTxt(Tail(names))

\* an accepted PUT .../$value: the named file's content is overwritten
PutFile(folder, name, text) ==
    [i \in 1..Len(folder) |->
        IF folder[i].name = name THEN File(name, text) ELSE folder[i]]

\* an accepted MoveTo(newUrl, flags=1): flags=1 overwrites a file at newUrl
MoveFile(folder, old, new) ==
    LET kept == SelectSeq(folder, LAMBDA f : f.name = old \/ f.name # new)
    IN  [i \in 1..Len(kept) |->
            IF kept[i].name = old THEN File(new, kept[i].content) ELSE kept[i]]

\* an accepted Files/Add(url=name): a new file of that name
AddFile(folder, name, text) == Append(folder, File(name, text))

-----------------------------------------------------------------------------
(* update_text_file: the date and the line patcher. *)

\* the 'Date Added' field of a list item: a string "y-m-dT..." or None
DateStr(yyyy, mm, dd) == [k |-> "str", y |-> yyyy, m |-> mm, d |-> dd]

DateNone == [k |-> "none", y |-> 0, m |-> 0, d |-> 0]

\* datetime.strptime(new_date.split('T')[0], '%Y-%m-%d') succeeds, and
\* new_date.strftime exists (None has no strftime)
DateParses(new_date) ==
    /\ new_date.k \in {"str", "datetime"}
    /\ new_date.k = "str" => (new_date.m \in 1..12 /\ new_date.d \in 1..31)

\* new_date.strftime('%m/%d/%Y'), as the token it forms in a line
NewDateStr(new_date) == DateTok(new_date.m, new_date.d, new_date.y)

\* 'CMS' in line
HasCMS(line) == \E i \in 1..Len(line) : line[i] = CMS

\* re.search(r'\d{2}/\d{2}/\d{4}', line)
HasDate(line) == \E i \in 1..Len(line) : line[i].k = "date"

\* the condition of line 193
Qualifies(line) == HasCMS(line) /\ HasDate(line)

RECURSIVE SkipSpace(_, _)
\* the first position from i on that holds no whitespace
SkipSpace(line, i) ==
    IF i <= Len(line) /\ IsSpace(line[i]) THEN SkipSpace(line, i + 1) ELSE i

\* r'(\d{2}/\d{2}/\d{4})\s+CMS' matched at position i: the position of CMS, or 0
MatchAt(line, i) ==
    LET j == SkipSpace(line, i + 1)
    IN  IF /\ line[i].k = "date"
           /\ j > i + 1
           /\ j <= Len(line)
           /\ line[j] = CMS
        THEN j ELSE 0

RECURSIVE ReSubFrom(_, _, _)
ReSubFrom(line, i, new_date_str) ==
    IF i > Len(line) THEN <<>>
    ELSE IF MatchAt(line, i) > 0
         THEN <<new_date_str, TAB, TAB, CMS>>
              \o ReSubFrom(line, MatchAt(line, i) + 1, new_date_str)
         ELSE <<line[i]>> \o ReSubFrom(line, i + 1, new_date_str)

\* re.sub(r'(\d{2}/\d{2}/\d{4})\s+CMS', f'{new_date_str}\t\tCMS', line)
ReSub(line, new_date_str) == ReSubFrom(line, 1, new_date_str)

\* one pass of the loop body of lines 192-202
PatchLine(line, new_date_str) ==
    IF Qualifies(line) THEN ReSub(line, new_date_str) ELSE line

\* updated_lines after the loop
PatchLines(lines, new_date_str) ==
    [i \in 1..Len(lines) |-> PatchLine(lines[i], new_date_str)]

\* updates_made after the loop
UpdatesMade(lines) == Cardinality({i \in 1..Len(lines) : Qualifies(lines[i])})

-----------------------------------------------------------------------------
(* Inputs of pipeline B: what the remote service holds and returns. *)

OldDate == DateTok(6, 1, 2023)

\* the lines a history file is built from: an empty line, a dated line of
\* other initials, a line naming CMS without a date, a CMS entry, and a line
\* where CMS precedes the date
LineOptions ==
    { <<>>,
      <<OldDate, TAB, TXT>>,
      <<CMS, SP, TXT>>,
      <<OldDate, TAB, TAB, CMS, TAB, TXT>>,
      <<CMS, SP, OldDate>> }

Contents ==
    { StrJoin(ls) : ls \in UNION { [1..n -> LineOptions] : n \in 1..MaxLines } }

DateInputs == { DateStr(2024, 6, 15), DateStr(2024, 13, 1), DateNone }

\* the point number of the i-th list item
PointNumber(i) ==
    CASE i = 1 -> <<"1">>
      [] i = 2 -> <<"2">>
      [] i = 3 -> <<"3">>
      [] OTHER -> <<"9">>

OtherName == <<"a", ".", "t", "x", "t">>

PdfName == <<"a", ".", "p", "d", "f">>

VariantName(point_number) == <<"p", "o", "i", "n", "t", " ">> \o point_number \o <<".", "T", "X", "T">>

FolderOptions(point_number) ==
    { <<>>, <<File(PdfName, <<>>)>> }
    \cup { <<File(nm, c)>> :
             nm \in {DesiredName(point_number), VariantName(point_number), OtherName},
             c \in Contents }
    \cup { <<File(PdfName, <<>>), File(OtherName, <<OldDate, SP, CMS>>)>>,
           <<File(OtherName, <<OldDate, SP, CMS>>),
             File(DesiredName(point_number), <<TXT>>)>> }

\* what another writer may leave in the file while a call is running
EditOptions(text) == { <<>>, text \o <<NL, OldDate, TAB, CMS>> }

NoPoint == [id |-> 0, number |-> <<>>, date_added |-> DateNone]

NoBackup == [state |-> "none", content |-> <<>>]

NoUpdate == [content |-> <<>>, made |-> 0]

NoHist == [folder0 |-> <<>>, located |-> NoName, edited |-> FALSE, fetched |-> FALSE]

EmptyResults == [successful |-> <<>>, failed |-> <<>>]

Request(op, src, dst, ok) == [op |-> op, src |-> src, dst |-> dst, ok |-> ok]

InCall == {"backup_fetch", "backup_write", "fetch", "patch", "rename", "put"}

-----------------------------------------------------------------------------
(* Pipeline A: values of a CSV row, and the text of a point history file. *)

\* None, as the value csv.DictReader gives a column the row does not reach
PyNone == <<"None">>

RECURSIVE LStrip(_)
LStrip(s) == IF s # <<>> /\ Head(s) = " " THEN LStrip(Tail(s)) ELSE s

RECURSIVE RStripChars(_)
RStripChars(s) ==
    IF s # <<>> /\ s[Len(s)] = " " THEN RStripChars(SubSeq(s, 1, Len(s) - 1)) ELSE s

\* str.strip() of a value that is a string
Strip(s) == RStripChars(LStrip(s))

\* truth of a value: None and '' are false
Truthy(v) == v # PyNone /\ v # <<>>

Fields ==
    {"DOCUMENT_NUM", "WORK_ORDER", "CONTROL_USED", "PNT_OBSERVED",
     "Township_Range", "Section", "Date_Observed"}

\* line 201: any(row.values())
AnyValue(r) == \E f \in Fields : Truthy(r[f])

\* line 205 raises AttributeError when a value is None
StripRaises(r) == \E f \in Fields : r[f] = PyNone

\* line 205: {k.strip(): v.strip() for k, v in row.items()}
CleanRow(r) == [f \in Fields |-> Strip(r[f])]

\* line 209: all(cleaned_row.get(field) for field in required_fields)
AllRequired(cleaned) == \A f \in Fields : Truthy(cleaned[f])

\* results[key] = value
SetItem(dict, key, value) ==
    [x \in DOMAIN dict \cup {key} |-> IF x = key THEN value ELSE dict[x]]

EmptyDict == [x \in {} |-> FALSE]

\* a token of a history file as pipeline A writes it: n numbers the
\* observation an entry was composed from, s is the monument type of an entry
\* or the point number of a title
ATok(kind, n, s) == [k |-> kind, n |-> n, s |-> s]

ANL == ATok("nl", 0, <<>>)

\* "    POINT HISTORY FILE: for point {obs.point_number}"
Title(point_number) == ATok("title", 0, point_number)

\* "(mm/dd/yyyy) \t(initials)\t\tACTION/REMARKS"
ColumnHeader == ATok("ACTION/REMARKS", 0, <<>>)

\* the line of dashes
Rule == ATok("rule", 0, <<>>)

RECURSIVE RStrip(_)
\* str.rstrip() of a text
RStrip(text) ==
    IF text # <<>> /\ IsSpace(text[Len(text)])
    THEN RStrip(SubSeq(text, 1, Len(text) - 1))
    ELSE text

\* lines 90-97: new_entry
NewEntry(o) == <<ANL, ANL, ATok("entry", o.document_num, o.monument_type), ANL, ANL>>

\* lines 102-107: the header block that precedes new_entry in the template
Header(point_number) ==
    <<ANL, Title(point_number), ANL, ANL, ColumnHeader, ANL, Rule, ANL>>

NoContent == [none |-> TRUE, text |-> <<>>]

SomeContent(text) == [none |-> FALSE, text |-> text]

\* HasExisting as "existing_content is not None"
HasExisting_NotNone(existing_content) == ~existing_content.none

\* "if existing_content": None and '' are false
HasExisting(existing_content) ==
    ~existing_content.none /\ existing_content.text # <<>>

\* CreatePointHistoryContent with the header block written on every call
CreatePointHistoryContent_AlwaysHeader(o, existing_content) ==
    Header(o.point_number)
    \o (IF HasExisting(existing_content) THEN RStrip(existing_content.text) ELSE <<>>)
    \o NewEntry(o)

\* _create_point_history_content
CreatePointHistoryContent(o, existing_content) ==
    IF HasExisting(existing_content)
    THEN RStrip(existing_content.text) \o NewEntry(o)
    ELSE Header(o.point_number) \o NewEntry(o)

-----------------------------------------------------------------------------
(* Inputs of pipeline A. *)

PointsA == { <<"1">>, <<"2">> }

FullRow(point_number) ==
    [f \in Fields |->
        IF f = "PNT_OBSERVED" THEN point_number
        ELSE IF f = "DOCUMENT_NUM" THEN <<" ", "v">>
        ELSE <<"v">>]

\* a row of empty strings, as ",,,,,," is read
BlankRow == [f \in Fields |-> <<>>]

\* the rows the CSV file may hold: complete rows, a blank row, rows with an
\* empty or all-space required field, and a row shorter than the header
RowOptions ==
    { FullRow(<<"1">>), FullRow(<<"2">>), BlankRow,
      [FullRow(<<"1">>) EXCEPT !["Section"] = <<" ">>],
      [FullRow(<<"2">>) EXCEPT !["PNT_OBSERVED"] = <<>>],
      [FullRow(<<"2">>) EXCEPT !["Date_Observed"] = PyNone] }

MonumentTypes == { <<>>, <<"B">> }

NoObs == [document_num |-> 0, point_number |-> <<>>, monument_type |-> <<>>]

\* a history file written by an earlier run
OldHistory(point_number) ==
    Header(point_number) \o NewEntry([NoObs EXCEPT !.point_number = point_number])

\* the states in which a run may find a point's folder: no file, a history
\* file under the canonical or another name, an empty file, a file of blank
\* lines beside a file that is no text file
FolderOptionsA(point_number) ==
    IF point_number = <<"1">>
    THEN { <<>>,
           <<File(DesiredName(point_number), OldHistory(point_number))>>,
           <<File(OtherName, OldHistory(point_number))>>,
           <<File(DesiredName(point_number), <<>>)>>,
           <<File(PdfName, <<>>), File(OtherName, <<ANL>>)>> }
    ELSE { <<>>, <<File(DesiredName(point_number), OldHistory(point_number))>> }

NoWrite == [point |-> <<>>, before |-> NoContent, after |-> <<>>]

\* fresh: the points that had no file when the run began; folder0: the folder
\* of the current call's point when the call began; requests: the writes the
\* current call has sent; last: the last accepted write; opened: the CSV
\* file was opened; outcomes: for each point, what the last call of
\* update_point_history for it returned
NoHistA == [fresh |-> {}, folder0 |-> <<>>, requests |-> <<>>, last |-> NoWrite,
            opened |-> FALSE, outcomes |-> EmptyDict]

IdleA ==
    /\ pcA = "idle"
    /\ nRows = 0
    /\ rowsRead = 0
    /\ row = BlankRow
    /\ cleaned_row = [bound |-> FALSE, row |-> BlankRow]
    /\ resultsA = EmptyDict
    /\ foldersA = [p \in PointsA |-> <<>>]
    /\ obs = NoObs
    /\ existing = NoContent
    /\ retA = "none"
    /\ histA = NoHistA

-----------------------------------------------------------------------------
(* Pipeline B: process_multiple_points and what it calls. *)

IdleB ==
    /\ nPoints = 0
    /\ idx = 0
    /\ point = NoPoint
    /\ folderB = <<>>
    /\ file_name = NoName
    /\ backup = NoBackup
    /\ content = <<>>
    /\ updated = NoUpdate
    /\ rename_needed = FALSE
    /\ issued = <<>>
    /\ retB = "none"
    /\ resultsB = EmptyResults
    /\ persisted = EmptyResults
    /\ hist = NoHist

InitB == pcB = "query" /\ IdleB /\ IdleA

\* process_single_point / update_text_file returns r
ReturnB(r) ==
    /\ retB' = r
    /\ pcB' = "record"

\* get_points_by_date_range and the max_points slice
BQuery ==
    /\ pcB = "query"
    /\ \/ /\ nPoints' = 0
          /\ pcB' = "done"
       \/ \E n \in 1..MaxPoints, max_points \in 0..MaxPoints :
            /\ nPoints' = IF max_points # 0 /\ max_points < n THEN max_points ELSE n
            /\ pcB' = "loop"
    /\ UNCHANGED <<idx, point, folderB, file_name, backup, content, updated,
                   rename_needed, issued, retB, resultsB, persisted, hist>>
    /\ UNCHANGED varsA

\* the head of the for loop: the next element of points, and the state in
\* which the service holds that point's folder
BNextPoint ==
    /\ pcB = "loop"
    /\ idx < nPoints
    /\ \E date_added \in DateInputs, f \in FolderOptions(PointNumber(idx + 1)) :
         /\ point' = [id |-> idx + 1, number |-> PointNumber(idx + 1),
                      date_added |-> date_added]
         /\ folderB' = f
         /\ hist' = [NoHist EXCEPT !.folder0 = f]
    /\ file_name' = NoName
    /\ backup' = NoBackup
    /\ content' = <<>>
    /\ updated' = NoUpdate
    /\ rename_needed' = FALSE
    /\ issued' = <<>>
    /\ retB' = "none"
    /\ pcB' = "locate"
    /\ UNCHANGED <<nPoints, idx, resultsB, persisted>>
    /\ UNCHANGED varsA

\* the for loop is exhausted: return results
BLoopEnd ==
    /\ pcB = "loop"
    /\ idx = nPoints
    /\ pcB' = "done"
    /\ UNCHANGED <<nPoints, idx, point, folderB, file_name, backup, content,
                   updated, rename_needed, issued, retB, resultsB, persisted, hist>>
    /\ UNCHANGED varsA

\* get_text_file_name, and process_single_point's "if not file_name"
BGetTextFileName ==
    /\ pcB = "locate"
    /\ \/ /\ file_name' = FirstTxt(Names(folderB))
          /\ hist' = [hist EXCEPT !.located = FirstTxt(Names(folderB))]
          /\ IF FirstTxt(Names(folderB)) = NoName
             THEN ReturnB(FALSE)
             ELSE pcB' = "backup_fetch" /\ retB' = retB
       \/ /\ file_name' = NoName
          /\ hist' = hist
          /\ ReturnB(FALSE)
    /\ UNCHANGED <<nPoints, idx, point, folderB, backup, content, updated,
                   rename_needed, issued, resultsB, persisted>>
    /\ UNCHANGED varsA

\* download_original_file, lines 124-126: the first GET of the content
BBackupFetch ==
    /\ pcB = "backup_fetch"
    /\ \/ /\ HasFile(folderB, file_name)
          /\ backup' = [state |-> "fetched", content |-> FileContent(folderB, file_name)]
          /\ pcB' = "backup_write"
          /\ retB' = retB
       \/ /\ backup' = [backup EXCEPT !.state = "fetch_failed"]
          /\ ReturnB(FALSE)
    /\ UNCHANGED <<nPoints, idx, point, folderB, file_name, content, updated,
                   rename_needed, issued, resultsB, persisted, hist>>
    /\ UNCHANGED varsA

\* BBackupWrite with the update going on after a failed write
BBackupWrite_ContinueOnFailure ==
    /\ pcB = "backup_write"
    /\ \/ backup' = [backup EXCEPT !.state = "written"]
       \/ backup' = [backup EXCEPT !.state = "failed"]
    /\ pcB' = "fetch"
    /\ UNCHANGED <<nPoints, idx, point, folderB, file_name, content, updated,
                   rename_needed, issued, retB, resultsB, persisted, hist>>
    /\ UNCHANGED varsA

\* download_original_file, lines 128-143: the local write of the backup
BBackupWrite ==
    /\ pcB = "backup_write"
    /\ \/ /\ backup' = [backup EXCEPT !.state = "written"]
          /\ pcB' = "fetch"
          /\ retB' = retB
       \/ /\ backup' = [backup EXCEPT !.state = "failed"]
          /\ ReturnB(FALSE)
    /\ UNCHANGED <<nPoints, idx, point, folderB, file_name, content, updated,
                   rename_needed, issued, resultsB, persisted, hist>>
    /\ UNCHANGED varsA

\* update_text_file, lines 176-178: the second GET of the content
BFetch ==
    /\ pcB = "fetch"
    /\ \/ /\ HasFile(folderB, file_name)
          /\ content' = FileContent(folderB, file_name)
          /\ hist' = [hist EXCEPT !.fetched = TRUE]
          /\ pcB' = "patch"
          /\ retB' = retB
       \/ /\ content' = content
          /\ hist' = hist
          /\ ReturnB(FALSE)
    /\ UNCHANGED <<nPoints, idx, point, folderB, file_name, backup, updated,
                   rename_needed, issued, resultsB, persisted>>
    /\ UNCHANGED varsA

\* RenameNeeded with the names compared as they are
RenameNeeded_CaseSensitive(name, point_number) == name # DesiredName(point_number)

\* line 181: file_name.lower() != desired_file_name.lower()
RenameNeeded(name, point_number) == Lower(name) # Lower(DesiredName(point_number))

\* NothingUpdated with the test never true
NothingUpdated_Never(updates_made) == updates_made < 0

\* line 204: updates_made == 0
NothingUpdated(updates_made) == updates_made = 0

\* update_text_file, lines 180-208
BPatch ==
    /\ pcB = "patch"
    /\ rename_needed' = RenameNeeded(file_name, point.number)
    /\ IF ~DateParses(point.date_added)
       THEN updated' = updated /\ ReturnB(FALSE)
       ELSE LET lines == StrSplit(content)
                new_date_str == NewDateStr(point.date_added)
            IN  IF NothingUpdated(UpdatesMade(lines))
                THEN updated' = updated /\ ReturnB(FALSE)
                ELSE /\ updated' = [content |-> StrJoin(PatchLines(lines, new_date_str)),
                                    made |-> UpdatesMade(lines)]
                     /\ pcB' = IF rename_needed' THEN "rename" ELSE "put"
                     /\ retB' = retB
    /\ UNCHANGED <<nPoints, idx, point, folderB, file_name, backup, content,
                   issued, resultsB, persisted, hist>>
    /\ UNCHANGED varsA

\* update_text_file, lines 210-213, and rename_sharepoint_file
BRename ==
    /\ pcB = "rename"
    /\ \/ /\ HasFile(folderB, file_name)
          /\ folderB' = MoveFile(folderB, file_name, DesiredName(point.number))
          /\ issued' = Append(issued, Request("rename", file_name,
                                              DesiredName(point.number), TRUE))
       \/ /\ folderB' = folderB
          /\ issued' = Append(issued, Request("rename", file_name,
                                              DesiredName(point.number), FALSE))
    /\ file_name' = DesiredName(point.number)
    /\ pcB' = "put"
    /\ UNCHANGED <<nPoints, idx, point, backup, content, updated, rename_needed,
                   retB, resultsB, persisted, hist>>
    /\ UNCHANGED varsA

\* BPut without the "return True" of line 228: the call returns None
BPut_ReturnsNone ==
    /\ pcB = "put"
    /\ \/ /\ HasFile(folderB, file_name)
          /\ folderB' = PutFile(folderB, file_name, updated.content)
          /\ issued' = Append(issued, Request("put", file_name, file_name, TRUE))
          /\ ReturnB(FALSE)
       \/ /\ folderB' = folderB
          /\ issued' = Append(issued, Request("put", file_name, file_name, FALSE))
          /\ ReturnB(FALSE)
    /\ UNCHANGED <<nPoints, idx, point, file_name, backup, content, updated,
                   rename_needed, resultsB, persisted, hist>>
    /\ UNCHANGED varsA

\* update_text_file, lines 215-232: the PUT of the updated content
BPut ==
    /\ pcB = "put"
    /\ \/ /\ HasFile(folderB, file_name)
          /\ folderB' = PutFile(folderB, file_name, updated.content)
          /\ issued' = Append(issued, Request("put", file_name, file_name, TRUE))
          /\ ReturnB(TRUE)
       \/ /\ folderB' = folderB
          /\ issued' = Append(issued, Request("put", file_name, file_name, FALSE))
          /\ ReturnB(FALSE)
    /\ UNCHANGED <<nPoints, idx, point, file_name, backup, content, updated,
                   rename_needed, resultsB, persisted, hist>>
    /\ UNCHANGED varsA

\* results[...].append of lines 273-278
AppendResult(results, ok, entry) ==
    IF ok THEN [results EXCEPT !.successful = Append(@, entry)]
    ELSE [results EXCEPT !.failed = Append(@, entry)]

\* process_multiple_points, lines 273-278
BRecord ==
    /\ pcB = "record"
    /\ resultsB' = AppendResult(resultsB, retB, [id |-> point.id, number |-> point.number])
    /\ pcB' = "save"
    /\ UNCHANGED <<nPoints, idx, point, folderB, file_name, backup, content, updated,
                   rename_needed, issued, retB, persisted, hist>>
    /\ UNCHANGED varsA

\* save_results: json.dump(results) into processing_results.json
SaveResults(results) == results

\* BSave with the results written once, after the last point
BSave_AtEnd ==
    /\ pcB = "save"
    /\ persisted' = IF idx + 1 = nPoints THEN SaveResults(resultsB) ELSE persisted
    /\ idx' = idx + 1
    /\ pcB' = "loop"
    /\ point' = NoPoint
    /\ folderB' = <<>>
    /\ file_name' = NoName
    /\ backup' = NoBackup
    /\ content' = <<>>
    /\ updated' = NoUpdate
    /\ rename_needed' = FALSE
    /\ issued' = <<>>
    /\ retB' = "none"
    /\ hist' = NoHist
    /\ UNCHANGED <<nPoints, resultsB>>
    /\ UNCHANGED varsA

\* process_multiple_points, line 280, and the end of the loop body: the
\* locals of the iteration go out of scope
BSave ==
    /\ pcB = "save"
    /\ persisted' = SaveResults(resultsB)
    /\ idx' = idx + 1
    /\ pcB' = "loop"
    /\ point' = NoPoint
    /\ folderB' = <<>>
    /\ file_name' = NoName
    /\ backup' = NoBackup
    /\ content' = <<>>
    /\ updated' = NoUpdate
    /\ rename_needed' = FALSE
    /\ issued' = <<>>
    /\ retB' = "none"
    /\ hist' = NoHist
    /\ UNCHANGED <<nPoints, resultsB>>
    /\ UNCHANGED varsA

\* another writer changes the located file between the two GETs of
\* update_text_file
BRemoteEdit ==
    /\ pcB \in {"backup_write", "fetch"}
    /\ ~hist.edited
    /\ HasFile(folderB, hist.located)
    /\ \E text \in EditOptions(FileContent(folderB, hist.located)) :
         folderB' = PutFile(folderB, hist.located, text)
    /\ hist' = [hist EXCEPT !.edited = TRUE]
    /\ UNCHANGED <<pcB, nPoints, idx, point, file_name, backup, content, updated,
                   rename_needed, issued, retB, resultsB, persisted>>
    /\ UNCHANGED varsA

NextB ==
    \/ BQuery
    \/ BNextPoint
    \/ BLoopEnd
    \/ BGetTextFileName
    \/ BBackupFetch
    \/ BBackupWrite
    \/ BFetch
    \/ BPatch
    \/ BRename
    \/ BPut
    \/ BRecord
    \/ BSave
    \/ BRemoteEdit

SpecB == InitB /\ [][NextB]_vars

-----------------------------------------------------------------------------
(* Pipeline A: process_vrs_csv and what it calls. *)

InitA ==
    /\ pcA = "open"
    /\ nRows = 0
    /\ rowsRead = 0
    /\ row = BlankRow
    /\ cleaned_row = [bound |-> FALSE, row |-> BlankRow]
    /\ resultsA = EmptyDict
    /\ foldersA \in { f \in [PointsA -> UNION { FolderOptionsA(p) : p \in PointsA }] :
                        \A p \in PointsA : f[p] \in FolderOptionsA(p) }
    /\ obs = NoObs
    /\ existing = NoContent
    /\ retA = "none"
    /\ histA = [NoHistA EXCEPT !.fresh = { p \in PointsA : foldersA[p] = <<>> }]
    /\ pcB = "idle"
    /\ IdleB

\* update_point_history returns r
ReturnA(r) ==
    /\ retA' = r
    /\ pcA' = "result"

\* line 196: open(csv_path); a failure is caught at line 228
AOpen ==
    /\ pcA = "open"
    /\ \/ /\ \E n \in 0..MaxRows : nRows' = n
          /\ histA' = [histA EXCEPT !.opened = TRUE]
          /\ pcA' = "read"
       \/ /\ nRows' = nRows
          /\ histA' = histA
          /\ pcA' = "done"
    /\ UNCHANGED <<rowsRead, row, cleaned_row, resultsA, foldersA, obs, existing, retA>>
    /\ UNCHANGED varsB

\* line 200: the reader yields the next row
ANextRow ==
    /\ pcA = "read"
    /\ rowsRead < nRows
    /\ \E r \in RowOptions : row' = r
    /\ rowsRead' = rowsRead + 1
    /\ pcA' = "row"
    /\ UNCHANGED <<nRows, cleaned_row, resultsA, foldersA, obs, existing, retA, histA>>
    /\ UNCHANGED varsB

\* line 200: the reader is exhausted; return results
AEndOfFile ==
    /\ pcA = "read"
    /\ rowsRead = nRows
    /\ pcA' = "done"
    /\ UNCHANGED <<nRows, rowsRead, row, cleaned_row, resultsA, foldersA, obs,
                   existing, retA, histA>>
    /\ UNCHANGED varsB

\* lines 201-218 and the handlers of lines 223-229: the body of the loop up
\* to the call of update_point_history (the row is not read again after it)
ARow ==
    /\ pcA = "row"
    /\ IF ~AnyValue(row)
       THEN \* continue
            /\ pcA' = "read"
            /\ UNCHANGED <<cleaned_row, resultsA, obs>>
       ELSE IF StripRaises(row)
       THEN \* AttributeError at line 205, handled at line 223
            IF cleaned_row.bound
            THEN /\ resultsA' = SetItem(resultsA, cleaned_row.row["PNT_OBSERVED"], FALSE)
                 /\ pcA' = "read"
                 /\ UNCHANGED <<cleaned_row, obs>>
            ELSE \* line 224 raises NameError, handled at line 228
                 /\ pcA' = "done"
                 /\ UNCHANGED <<cleaned_row, resultsA, obs>>
       ELSE /\ cleaned_row' = [bound |-> TRUE, row |-> CleanRow(row)]
            /\ IF AllRequired(CleanRow(row))
               THEN /\ obs' = [document_num |-> rowsRead,
                               point_number |-> CleanRow(row)["PNT_OBSERVED"],
                               monument_type |-> <<>>]
                    /\ pcA' = "mon"
               ELSE /\ obs' = obs
                    /\ pcA' = "read"
            /\ resultsA' = resultsA
    /\ row' = BlankRow
    /\ UNCHANGED <<nRows, rowsRead, foldersA, existing, retA, histA>>
    /\ UNCHANGED varsB

\* line 145: get_monument_type; a failed request gives None
AGetMonumentType ==
    /\ pcA = "mon"
    /\ \E t \in MonumentTypes : obs' = [obs EXCEPT !.monument_type = t]
    /\ histA' = [histA EXCEPT !.folder0 = foldersA[obs.point_number]]
    /\ pcA' = "list"
    /\ UNCHANGED <<nRows, rowsRead, row, cleaned_row, resultsA, foldersA, existing, retA>>
    /\ UNCHANGED varsB

\* get_existing_content, lines 112-122 and 133-141: the listing of the folder
AListFiles ==
    /\ pcA = "list"
    /\ \/ /\ FirstTxt(Names(foldersA[obs.point_number])) # NoName
          /\ pcA' = "get"
       \/ /\ FirstTxt(Names(foldersA[obs.point_number])) = NoName
          /\ pcA' = "add"
       \/ pcA' = "add"
    /\ existing' = NoContent
    /\ UNCHANGED <<nRows, rowsRead, row, cleaned_row, resultsA, foldersA, obs, retA, histA>>
    /\ UNCHANGED varsB

\* get_existing_content, lines 124-131, and line 151 of update_point_history
AGetContent ==
    /\ pcA = "get"
    /\ \/ existing' = SomeContent(FileContent(foldersA[obs.point_number],
                                              FirstTxt(Names(foldersA[obs.point_number]))))
       \/ existing' = NoContent
    /\ pcA' = IF HasExisting(existing') THEN "relist" ELSE "add"
    /\ UNCHANGED <<nRows, rowsRead, row, cleaned_row, resultsA, foldersA, obs, retA, histA>>
    /\ UNCHANGED varsB

\* update_point_history, lines 152-160: the second listing of the folder
ARelist ==
    /\ pcA = "relist"
    /\ \/ /\ FirstTxt(Names(foldersA[obs.point_number])) # NoName
          /\ pcA' = "put"
          /\ retA' = retA
       \/ ReturnA(FALSE)
    /\ UNCHANGED <<nRows, rowsRead, row, cleaned_row, resultsA, foldersA, obs,
                   existing, histA>>
    /\ UNCHANGED varsB

\* an accepted write of text into the current point's file called name
Written(name, text, op) ==
    /\ histA' = [histA EXCEPT
                   !.requests = Append(@, Request(op, name, name, TRUE)),
                   !.last = [point |-> obs.point_number,
                             before |-> IF HasFile(foldersA[obs.point_number], name)
                                        THEN SomeContent(FileContent(foldersA[obs.point_number], name))
                                        ELSE NoContent,
                             after |-> text]]
    /\ ReturnA(TRUE)

\* a rejected write
Rejected(name, op) ==
    /\ histA' = [histA EXCEPT !.requests = Append(@, Request(op, name, name, FALSE))]
    /\ foldersA' = foldersA
    /\ ReturnA(FALSE)

\* update_point_history, lines 162-171 and 181-190: the PUT of the content
\* into the first text file of the second listing
APut ==
    /\ pcA = "put"
    /\ LET name == FirstTxt(Names(foldersA[obs.point_number]))
           text == CreatePointHistoryContent(obs, existing)
       IN  \/ /\ foldersA' = [foldersA EXCEPT ![obs.point_number] = PutFile(@, name, text)]
              /\ Written(name, text, "put")
           \/ Rejected(name, "put")
    /\ UNCHANGED <<nRows, rowsRead, row, cleaned_row, resultsA, obs, existing>>
    /\ UNCHANGED varsB

\* update_point_history, lines 173-190: POST Files/Add(url='Point N.txt').
\* The request carries no overwrite flag: the service rejects it when a file
\* of that name exists
AAdd ==
    /\ pcA = "add"
    /\ LET name == DesiredName(obs.point_number)
           text == CreatePointHistoryContent(obs, existing)
       IN  \/ /\ ~HasFile(foldersA[obs.point_number], name)
              /\ foldersA' = [foldersA EXCEPT ![obs.point_number] = AddFile(@, name, text)]
              /\ Written(name, text, "add")
           \/ Rejected(name, "add")
    /\ UNCHANGED <<nRows, rowsRead, row, cleaned_row, resultsA, obs, existing>>
    /\ UNCHANGED varsB

\* line 221: results[obs.point_number] = success; the locals of the call
\* are dead from here on
AResult ==
    /\ pcA = "result"
    /\ resultsA' = SetItem(resultsA, obs.point_number, retA)
    /\ retA' = "none"
    /\ obs' = NoObs
    /\ existing' = NoContent
    /\ histA' = [histA EXCEPT !.folder0 = <<>>, !.requests = <<>>,
                                !.outcomes = SetItem(@, obs.point_number, retA)]
    /\ pcA' = "read"
    /\ UNCHANGED <<nRows, rowsRead, row, cleaned_row, foldersA>>
    /\ UNCHANGED varsB

NextA ==
    \/ AOpen
    \/ ANextRow
    \/ AEndOfFile
    \/ ARow
    \/ AGetMonumentType
    \/ AListFiles
    \/ AGetContent
    \/ ARelist
    \/ APut
    \/ AAdd
    \/ AResult

SpecA == InitA /\ [][NextA]_vars

-----------------------------------------------------------------------------
(* Either script is run. *)

Init == InitA \/ InitB

Next == NextA \/ NextB

Spec == Init /\ [][Next]_vars

-----------------------------------------------------------------------------
(* _create_point_history_content on its own: the composer is applied once to
   an observation and an existing text drawn from bounded sets. *)

\* the tokens of the existing texts: a blank, a column header, an entry of an
\* earlier run and a line of dashes
TextTokens == { ANL, ColumnHeader, ATok("entry", 0, <<>>), Rule }

RECURSIVE Texts(_)
\* the texts of at most n tokens
Texts(n) ==
    IF n = 0 THEN { <<>> }
    ELSE Texts(n - 1)
         \cup { Append(t, x) : t \in { u \in Texts(n - 1) : Len(u) = n - 1 },
                                x \in TextTokens }

\* existing_content: None, '' or a text
ExistingInputs == { NoContent } \cup { SomeContent(t) : t \in Texts(MaxText) }

\* obs, with the fields the composed text depends on
ObsInputs ==
    { [document_num |-> n, point_number |-> p, monument_type |-> t] :
        n \in 1..MaxRows, p \in PointsA, t \in MonumentTypes }

InitCompose ==
    /\ pcA = "compose"
    /\ nRows = 0
    /\ rowsRead = 0
    /\ row = BlankRow
    /\ cleaned_row = [bound |-> FALSE, row |-> BlankRow]
    /\ resultsA = EmptyDict
    /\ foldersA = [p \in PointsA |-> <<>>]
    /\ obs \in ObsInputs
    /\ existing \in ExistingInputs
    /\ retA = "none"
    /\ histA = NoHistA
    /\ pcB = "idle"
    /\ IdleB

\* the call: histA.last.after is the text returned
Compose ==
    /\ pcA = "compose"
    /\ histA' = [histA EXCEPT !.last = [point |-> obs.point_number,
                                        before |-> existing,
                                        after |-> CreatePointHistoryContent(obs, existing)]]
    /\ pcA' = "composed"
    /\ UNCHANGED <<nRows, rowsRead, row, cleaned_row, resultsA, foldersA, obs,
                   existing, retA>>
    /\ UNCHANGED varsB

NextCompose == Compose

SpecCompose == InitCompose /\ [][NextCompose]_vars

-----------------------------------------------------------------------------
(* Vocabulary of the properties. *)

IsPrefix(a, b) == Len(a) <= Len(b) /\ SubSeq(b, 1, Len(a)) = a

Count(text, kind) == Cardinality({i \in 1..Len(text) : text[i].k = kind})

\* the requests of the given kind among reqs
Sent(reqs, op) == {i \in 1..Len(reqs) : reqs[i].op = op}

\* the lines fetched at line 176 and the lines of updated_content
FetchedLines == StrSplit(content)

WrittenLines == StrSplit(updated.content)

\* the located name and the canonical name differ ignoring case
NamesDiffer == Lower(hist.located) # Lower(DesiredName(point.number))

Ids(list) == {list[i].id : i \in 1..Len(list)}

Increasing(list) == \A i, j \in 1..Len(list) : i < j => list[i].id < list[j].id

-----------------------------------------------------------------------------
(* Pipeline B. *)

\* C1: update_text_file sends no rename and no PUT unless the backup of this
\* call was written before; when the backup fails (its GET or its local write)
\* the call returns False, has sent no mutating request and has left the
\* folder as it found it.
C1_BackupBeforeMutation ==
    /\ issued # <<>> => backup.state = "written"
    /\ pcB \in {"fetch", "patch", "rename", "put"} => backup.state = "written"
    /\ backup.state \in {"fetch_failed", "failed"} =>
          /\ pcB \in {"record", "save"}
          /\ retB = FALSE
          /\ issued = <<>>
          /\ ~hist.edited => folderB = hist.folder0

\* a call whose backup write failed, on a file that would have been renamed
\* and patched
C1_Witness ==
    /\ pcB = "record"
    /\ backup.state = "failed"
    /\ UpdatesMade(StrSplit(backup.content)) > 0
    /\ NamesDiffer
    /\ DateParses(point.date_added)

\* C4: every line that contains CMS and a date comes out with the new date,
\* two tabs and the marker.
C4_QualifyingLinesCarryNewDate ==
    updated.made > 0 =>
        \A i \in 1..Len(FetchedLines) :
            Qualifies(FetchedLines[i]) =>
                /\ i <= Len(WrittenLines)
                /\ \E j \in 1..Len(WrittenLines[i]) :
                      /\ j + 3 <= Len(WrittenLines[i])
                      /\ SubSeq(WrittenLines[i], j, j + 3)
                           = <<NewDateStr(point.date_added), TAB, TAB, CMS>>

\* C5: the written content has the lines of the fetched content, in number and
\* order, and every line that does not contain both CMS and a date is the same
\* in both; an accepted PUT stores exactly that content.
C5_OtherLinesVerbatim ==
    updated.made > 0 =>
        /\ Len(WrittenLines) = Len(FetchedLines)
        /\ \A i \in 1..Len(FetchedLines) :
              ~Qualifies(FetchedLines[i]) => WrittenLines[i] = FetchedLines[i]
        /\ \A i \in Sent(issued, "put") :
              issued[i].ok => FileContent(folderB, issued[i].dst) = updated.content

\* an accepted PUT of a file of several lines, one of them a line that does
\* not qualify and is not empty
C5_Witness ==
    /\ pcB = "record"
    /\ retB = TRUE
    /\ Len(FetchedLines) >= 2
    /\ \E i \in 1..Len(FetchedLines) :
          ~Qualifies(FetchedLines[i]) /\ FetchedLines[i] # <<>>

\* C6: when no fetched line qualifies the call returns False and sends neither
\* a rename nor a PUT; a PUT is sent only with updates_made at least 1.
C6_ZeroLinesIsFailure ==
    /\ (hist.fetched /\ UpdatesMade(FetchedLines) = 0) =>
          /\ issued = <<>>
          /\ pcB \in {"patch", "record", "save"}
          /\ pcB # "patch" => retB = FALSE
    /\ Sent(issued, "put") # {} =>
          /\ updated.made >= 1
          /\ updated.made = UpdatesMade(FetchedLines)

\* a call that failed on a file of several lines, none qualifying, whose name
\* is not the canonical one and whose date parses
C6_Witness ==
    /\ pcB = "record"
    /\ hist.fetched
    /\ UpdatesMade(FetchedLines) = 0
    /\ Len(FetchedLines) >= 2
    /\ NamesDiffer
    /\ DateParses(point.date_added)
    /\ retB = FALSE

\* C7: a rename to the canonical name is sent exactly when the located name
\* differs from it ignoring case and a line was patched; it is the first
\* mutating request; after it, accepted or not, the call goes on to the PUT,
\* and the PUT names the canonical file.
C7_RenameThenWrite ==
    /\ \A i \in Sent(issued, "rename") :
          /\ i = 1
          /\ NamesDiffer
          /\ updated.made >= 1
          /\ issued[i].src = hist.located
          /\ issued[i].dst = DesiredName(point.number)
    /\ (updated.made >= 1 /\ NamesDiffer) =>
          pcB = "rename" \/ Sent(issued, "rename") = {1}
    /\ Sent(issued, "rename") # {} =>
          \/ pcB = "put" /\ file_name = DesiredName(point.number) /\ Len(issued) = 1
          \/ /\ Len(issued) = 2
             /\ issued[2].op = "put"
             /\ issued[2].dst = DesiredName(point.number)
             /\ pcB \in {"record", "save"}

\* a rejected rename followed by the PUT to the canonical name
C7_Witness ==
    /\ Len(issued) = 2
    /\ issued[1].op = "rename"
    /\ ~issued[1].ok
    /\ issued[2].op = "put"
    /\ issued[2].dst = DesiredName(point.number)

\* C8: the results file holds every point whose iteration has completed, each
\* in exactly one of its two lists and once, in processing order; it is a
\* prefix of the in-memory results and lacks at most the point of the
\* iteration in progress.
C8_PersistedAfterEveryPoint ==
    /\ Ids(persisted.successful) \cup Ids(persisted.failed) = 1..idx
    /\ Ids(persisted.successful) \cap Ids(persisted.failed) = {}
    /\ Len(persisted.successful) + Len(persisted.failed) = idx
    /\ Increasing(persisted.successful)
    /\ Increasing(persisted.failed)
    /\ IsPrefix(persisted.successful, resultsB.successful)
    /\ IsPrefix(persisted.failed, resultsB.failed)
    /\ Len(resultsB.successful) + Len(resultsB.failed)
         = idx + (IF pcB = "save" THEN 1 ELSE 0)

\* the second point recorded and not yet saved, the first one saved as failed
C8_Witness ==
    /\ pcB = "save"
    /\ idx = 1
    /\ Len(persisted.failed) = 1
    /\ Len(resultsB.successful) = 1

-----------------------------------------------------------------------------
(* Pipeline A. *)

TxtCount(folder) == Cardinality({i \in 1..Len(folder) : IsTxtName(folder[i].name)})

\* C2: a call that writes sends a PUT exactly when the folder held a text file
\* when the call began and a create exactly when it held none, and the folder
\* never holds more text files than before unless it held none.
C2_UpdateIffFileExists ==
    (pcA = "result" /\ histA.requests # <<>>) =>
        /\ histA.requests[1].op = "put" <=> TxtCount(histA.folder0) > 0
        /\ histA.requests[1].op = "add" <=> TxtCount(histA.folder0) = 0
        /\ TxtCount(histA.folder0) <= 1 => TxtCount(foldersA[obs.point_number]) <= 1

C9_RunProcessesEveryUnit ==
    /\ (pcA = "done" /\ histA.opened) => rowsRead = nRows
    /\ pcB = "done" => idx = nPoints

\* a row with every required field present and not empty after stripping
RowComplete(r) == \A f \in Fields : r[f] # PyNone /\ Strip(r[f]) # <<>>

\* C10: a row that is blank or lacks a required field goes back to the reader
\* with the results unchanged, and a complete row starts one call of
\* update_point_history.
C10_IncompleteRowsSkipped ==
    [][pcA = "row" =>
          IF RowComplete(row)
          THEN pcA' = "mon" /\ resultsA' = resultsA
          ELSE pcA' = "read" /\ resultsA' = resultsA]_vars

-----------------------------------------------------------------------------
(* Pipeline B: the backup and the text the patch reads. *)

\* C11: once update_text_file has fetched the text it patches, the backup
\* file holds exactly that text, whatever the service did between the
\* requests of the call.
C11_BackupEqualsPatchedOriginal ==
    hist.fetched => (backup.state = "written" /\ backup.content = content)

\* the rename of the current call was accepted
Renamed == \E i \in Sent(issued, "rename") : issued[i].ok

\* C13: a call of update_text_file that returns failure has had no PUT
\* accepted; unless another writer changed the file meanwhile, the folder is
\* as it was when the call began, or, after an accepted rename, the located
\* file stands under the canonical name with the content it had and every
\* other file is as before (the rename replaces a file of the canonical name).
C13_FailedCallKeepsContent ==
    (pcB = "record" /\ retB = FALSE) =>
        /\ \A i \in Sent(issued, "put") : ~issued[i].ok
        /\ ~hist.edited =>
              IF ~Renamed
              THEN folderB = hist.folder0
              ELSE LET canon == DesiredName(point.number)
                   IN  /\ HasFile(folderB, canon)
                       /\ FileContent(folderB, canon)
                            = FileContent(hist.folder0, hist.located)
                       /\ \A i \in 1..Len(folderB) :
                             folderB[i].name # canon
                                => \E j \in 1..Len(hist.folder0) :
                                      hist.folder0[j] = folderB[i]
                       /\ \A j \in 1..Len(hist.folder0) :
                             hist.folder0[j].name \notin {hist.located, canon}
                                => \E i \in 1..Len(folderB) :
                                      folderB[i] = hist.folder0[j]

\* a call that fails at the PUT after its rename was accepted
C13_Witness ==
    /\ pcB = "record"
    /\ retB = FALSE
    /\ ~hist.edited
    /\ Renamed
    /\ Sent(issued, "put") # {}
    /\ folderB # hist.folder0

-----------------------------------------------------------------------------
(* The content composer. *)

\* the places of the tokens of the given kind in text
Places(text, kind) == {i \in 1..Len(text) : text[i].k = kind}

\* C12: composed from no or an empty existing text, the output begins with
\* the header block, holds the column header once and one entry after it;
\* composed from a non-empty existing text, the output is that text with its
\* trailing whitespace stripped followed by the new entry, and holds as many
\* column headers as the existing text.
C12_ComposerHeaderOnce ==
    pcA = "composed" =>
        LET out == histA.last.after
            new_entry == <<ANL, ANL,
                           ATok("entry", obs.document_num, obs.monument_type),
                           ANL, ANL>>
        IN  IF existing.none \/ existing.text = <<>>
            THEN /\ IsPrefix(Header(obs.point_number), out)
                 /\ Count(out, "ACTION/REMARKS") = 1
                 /\ Count(out, "title") = 1
                 /\ Count(out, "rule") = 1
                 /\ Count(out, "entry") = 1
                 /\ \A h \in Places(out, "ACTION/REMARKS"), e \in Places(out, "entry") :
                       h < e
            ELSE /\ out = RStrip(existing.text) \o new_entry
                 /\ Count(out, "ACTION/REMARKS") = Count(existing.text, "ACTION/REMARKS")
                 /\ Count(out, "title") = Count(existing.text, "title")
                 /\ Count(out, "rule") = Count(existing.text, "rule")

\* composed from an existing text that holds a column header and an entry and
\* ends in whitespace
C12_Witness ==
    /\ pcA = "composed"
    /\ ~existing.none
    /\ Count(existing.text, "ACTION/REMARKS") = 1
    /\ Count(existing.text, "entry") = 1
    /\ RStrip(existing.text) # existing.text
    /\ Count(histA.last.after, "entry") = 2

-----------------------------------------------------------------------------
(* The results of process_vrs_csv. *)

\* C14: when process_vrs_csv has returned, the results map has an entry for
\* exactly the points for which update_point_history was called, and each
\* entry is what the last call for that point returned.
C14_ResultsAreLastOutcomes ==
    pcA = "done" =>
        /\ DOMAIN resultsA = DOMAIN histA.outcomes
        /\ \A p \in DOMAIN resultsA : resultsA[p] = histA.outcomes[p]

====
